---- MODULE Spec2Model ----
(***************************************************************************)
(* Model of the gophertalk FastAPI backend flavour:                        *)
(*   services/auth_service.py      login, register, generate_token_pair    *)
(*   controllers/post_controller.py  the /posts handlers                   *)
(* The repositories, the post service and the token verification of the    *)
(* routing layer are not part of the two files; they are modelled from     *)
(* the specification's contracts (sections 4 and 6).                       *)
(***************************************************************************)
EXTENDS Integers, Sequences, FiniteSets, TLC

VARIABLES
    env,          \* process environment read at import (os.getenv)
    users,        \* Credential Store: set of user rows
    storeWrites,  \* number of committed writes to the Credential Store
    now,          \* the clock, in whole seconds (datetime.utcnow())
    held,         \* the token pair a client keeps, with its issuance instant
    registered,   \* history: the credentials of every successful register
    last,         \* outcome of the most recent auth call / verification
    posts,        \* Post Store: post id -> post row
    postSeq,      \* last id handed out by the Post Store
    views,        \* ViewEdges  <<post_id, user_id>>
    likes,        \* LikeEdges  <<post_id, user_id>>
    resp,         \* outcome of the most recent /posts request
    storeDown,    \* the database refuses every statement (outage)
    inflight      \* requests accepted, each with how far it has been served

authVars == <<env, users, storeWrites, now, held, registered, last>>
postVars == <<posts, postSeq, views, likes, resp>>
runVars == <<storeDown, inflight>>
vars == <<env, users, storeWrites, now, held, registered, last,
          posts, postSeq, views, likes, resp, storeDown, inflight>>

----------------------------------------------------------------------------
(* Bounds of the exploration *)

MaxSkew == 0      \* the clock is sampled up to MaxSkew s after each boundary
MaxPosts == 1     \* posts ever created under SpecPost
MaxUsers == 2     \* authenticated users of the post endpoints

Usernames == {"alice", "bob"}
Passwords == {"pw1", "pw2"}
Salts == {"saltA", "saltB"}

----------------------------------------------------------------------------
(* Environment and module-level configuration, auth_service.py lines 9-12 *)

Digit == ("0" :> 0) @@ ("1" :> 1) @@ ("2" :> 2) @@ ("3" :> 3) @@ ("4" :> 4)
         @@ ("5" :> 5) @@ ("6" :> 6) @@ ("7" :> 7) @@ ("8" :> 8) @@ ("9" :> 9)

\* int(s) for a decimal string, given as its sequence of characters
RECURSIVE int(_)
int(s) == IF Len(s) = 0 THEN 0
          ELSE 10 * int(SubSeq(s, 1, Len(s) - 1)) + Digit[s[Len(s)]]

\* os.getenv(name, default)
getenv(name, default) == IF name \in DOMAIN env THEN env[name] ELSE default

\* the environments explored: nothing set; everything set, secrets distinct;
\* both secrets set to one value
Envs ==
    { [n \in {} |-> "" ],
      [ACCESS_TOKEN_SECRET |-> "prod_access",
       REFRESH_TOKEN_SECRET |-> "prod_refresh",
       ACCESS_TOKEN_EXPIRES |-> <<"6", "0">>,
       REFRESH_TOKEN_EXPIRES |-> <<"1", "2", "0">>],
      [ACCESS_TOKEN_SECRET |-> "shared",
       REFRESH_TOKEN_SECRET |-> "shared"] }

ACCESS_SECRET == getenv("ACCESS_TOKEN_SECRET", "dev_secret")
REFRESH_SECRET == getenv("REFRESH_TOKEN_SECRET", "dev_refresh")
ACCESS_EXPIRES == int(getenv("ACCESS_TOKEN_EXPIRES", <<"3", "6", "0", "0">>))
REFRESH_EXPIRES ==
    int(getenv("REFRESH_TOKEN_EXPIRES", <<"8", "6", "4", "0", "0">>))

----------------------------------------------------------------------------
(* Libraries: bcrypt and jose.jwt *)

\* bcrypt.hashpw(password, salt): the hash carries its salt
hashpw(password, salt) == [salt |-> salt, digest |-> <<salt, password>>]

\* bcrypt.checkpw(password, hashed): re-hash with the salt of the stored hash
checkpw(password, hashed) == hashpw(password, hashed.salt) = hashed

\* HS256 signature of a payload under a key
HS256(payload, key) == <<payload.sub, payload.exp, key>>

\* jwt.encode(claims, key, algorithm="HS256")
jwt_encode(claims, key) == [payload |-> claims, sig |-> HS256(claims, key)]

----------------------------------------------------------------------------
(* Credential Store (repositories/user_repository.py) *)

get_user_by_username(user_name) == {u \in users : u.user_name = user_name}

\* insertUser: raises UniqueViolation on a duplicate username, otherwise
\* assigns the next id and commits one row
create_user(user_data) ==
    IF storeDown
    THEN [raised |-> "OperationalError", users |-> users, writes |-> 0,
          user |-> {}]
    ELSE IF \E u \in users : u.user_name = user_data.user_name
    THEN [raised |-> "UniqueViolation", users |-> users, writes |-> 0,
          user |-> {}]
    ELSE LET row == [id |-> Cardinality(users) + 1,
                     user_name |-> user_data.user_name,
                     password_hash |-> user_data.password_hash,
                     first_name |-> user_data.first_name,
                     last_name |-> user_data.last_name]
         IN [raised |-> "", users |-> users \cup {row}, writes |-> 1,
             user |-> {row}]

----------------------------------------------------------------------------
(* services/auth_service.py *)

generate_token_pair_no_ttl(user_id) ==
    [access_token |->
        jwt_encode([sub |-> ToString(user_id), exp |-> now], ACCESS_SECRET),
     refresh_token |->
        jwt_encode([sub |-> ToString(user_id), exp |-> now], REFRESH_SECRET)]

generate_token_pair_swapped_ttl(user_id) ==
    [access_token |->
        jwt_encode([sub |-> ToString(user_id), exp |-> now + REFRESH_EXPIRES],
                   ACCESS_SECRET),
     refresh_token |->
        jwt_encode([sub |-> ToString(user_id), exp |-> now + ACCESS_EXPIRES],
                   REFRESH_SECRET)]

generate_token_pair_one_secret(user_id) ==
    [access_token |->
        jwt_encode([sub |-> ToString(user_id), exp |-> now + ACCESS_EXPIRES],
                   ACCESS_SECRET),
     refresh_token |->
        jwt_encode([sub |-> ToString(user_id), exp |-> now + REFRESH_EXPIRES],
                   ACCESS_SECRET)]

generate_token_pair(user_id) ==
    [access_token |->
        jwt_encode([sub |-> ToString(user_id), exp |-> now + ACCESS_EXPIRES],
                   ACCESS_SECRET),
     refresh_token |->
        jwt_encode([sub |-> ToString(user_id), exp |-> now + REFRESH_EXPIRES],
                   REFRESH_SECRET)]

\* a call's result: the returned token pair, or the message of the ValueError
\* (store is the Credential Store as the call leaves it)
Unwritten == [users |-> users, writes |-> 0]
Return(tokens, store) == [ok |-> TRUE, error |-> "", tokens |-> {tokens},
                          users |-> store.users, writes |-> store.writes]
Raise(message, store) == [ok |-> FALSE, error |-> message, tokens |-> {},
                          users |-> store.users, writes |-> store.writes]

login_no_password_check(dto) ==
    LET found == get_user_by_username(dto.user_name)
    IN IF found = {} THEN Raise("User not found", Unwritten)
       ELSE LET user == CHOOSE u \in found : TRUE
            IN Return(generate_token_pair(user.id), Unwritten)

login(dto) ==
    LET found == get_user_by_username(dto.user_name)
    IN IF found = {} THEN Raise("User not found", Unwritten)
       ELSE LET user == CHOOSE u \in found : TRUE
            IN IF ~checkpw(dto.password, user.password_hash)
               THEN Raise("Wrong password", Unwritten)
               ELSE Return(generate_token_pair(user.id), Unwritten)

UserData(dto, password_hash) ==
    [user_name |-> dto.user_name, password_hash |-> password_hash,
     first_name |-> dto.first_name, last_name |-> dto.last_name]

\* register that answers a duplicate with tokens of a fresh row
register_ignores_violation(dto, salt) ==
    LET password_hash == hashpw(dto.password, salt)
        row == [id |-> Cardinality(users) + 1,
                user_name |-> dto.user_name, password_hash |-> password_hash,
                first_name |-> dto.first_name, last_name |-> dto.last_name]
    IN Return(generate_token_pair(row.id),
              [users |-> users \cup {row}, writes |-> 1])

\* register that hashes the user name in place of the password
register_hashes_user_name(dto, salt) ==
    LET created == create_user(UserData(dto, hashpw(dto.user_name, salt)))
    IN IF created.raised = "UniqueViolation"
       THEN Raise("User already exists", created)
       ELSE IF created.raised # "" THEN Raise(created.raised, created)
       ELSE LET user == CHOOSE u \in created.user : TRUE
            IN Return(generate_token_pair(user.id), created)

\* register that stores the new hash over the row a duplicate names before
\* it raises
register_overwrites_on_violation(dto, salt) ==
    LET password_hash == hashpw(dto.password, salt)
        created == create_user(UserData(dto, password_hash))
    IN IF created.raised = "UniqueViolation"
       THEN Raise("User already exists",
                  [users |-> {IF u.user_name = dto.user_name
                              THEN [u EXCEPT !.password_hash = password_hash]
                              ELSE u : u \in users},
                   writes |-> 1])
       ELSE IF created.raised # "" THEN Raise(created.raised, created)
       ELSE LET user == CHOOSE u \in created.user : TRUE
            IN Return(generate_token_pair(user.id), created)

\* salt is the value bcrypt.gensalt() draws
register(dto, salt) ==
    LET password_hash == hashpw(dto.password, salt)
        created == create_user(UserData(dto, password_hash))
    IN IF created.raised = "UniqueViolation"
       THEN Raise("User already exists", created)
       ELSE IF created.raised # "" THEN Raise(created.raised, created)
       ELSE LET user == CHOOSE u \in created.user : TRUE
            IN Return(generate_token_pair(user.id), created)

----------------------------------------------------------------------------
(* Token verification of the routing layer (dependencies/auth.py) *)

verify(token, secret, t) ==
    IF token.sig # HS256(token.payload, secret)
    THEN [ok |-> FALSE, error |-> "InvalidToken", user_id |-> ""]
    ELSE IF token.payload.exp <= t
    THEN [ok |-> FALSE, error |-> "ExpiredToken", user_id |-> ""]
    ELSE [ok |-> TRUE, error |-> "", user_id |-> token.payload.sub]

----------------------------------------------------------------------------
(* The authentication service as a state machine *)

\* the instants the clock is sampled at: the start, and the last second
\* before and the second of the end of each lifetime counted from the start
Instants ==
    { m + d : m \in 0..MaxSkew,
              d \in {0, ACCESS_EXPIRES - 1, ACCESS_EXPIRES,
                     REFRESH_EXPIRES - 1, REFRESH_EXPIRES} }

Dtos == [user_name : Usernames, password : Passwords,
         first_name : {"First"}, last_name : {"Last"}]

Idle == [op |-> "none"]

\* the client keeps the pair a successful call returned
Keep(result) ==
    IF result.ok
    THEN {[tokens |-> CHOOSE p \in result.tokens : TRUE, issued_at |-> now]}
    ELSE held

\* no post endpoint has been called
PostIdle ==
    /\ posts = <<>>
    /\ postSeq = 0
    /\ views = {}
    /\ likes = {}
    /\ resp = Idle
    /\ storeDown = FALSE
    /\ inflight = {}

AuthInit ==
    /\ env \in Envs
    /\ users = {}
    /\ storeWrites = 0
    /\ now = 0
    /\ held = {}
    /\ registered = {}
    /\ last = Idle
    /\ PostIdle

\* the subject the two tokens of a returned pair carry
Subjects(tokens) ==
    UNION {{p.access_token.payload.sub, p.refresh_token.payload.sub} :
           p \in tokens}

Register ==
    \E dto \in Dtos, salt \in Salts :
        LET result == register(dto, salt)
        IN /\ users' = result.users
           /\ storeWrites' = storeWrites + result.writes
           /\ held' = Keep(result)
           /\ registered' =
                IF result.ok
                THEN registered \cup
                     {[user_name |-> dto.user_name, password |-> dto.password,
                       subjects |-> Subjects(result.tokens)]}
                ELSE registered
           /\ last' = [op |-> "register", dto |-> dto, at |-> now,
                       ok |-> result.ok, error |-> result.error,
                       tokens |-> result.tokens]
           /\ UNCHANGED <<env, now>>

Login ==
    \E dto \in Dtos :
        LET result == login(dto)
        IN /\ users' = result.users
           /\ storeWrites' = storeWrites + result.writes
           /\ held' = Keep(result)
           /\ last' = [op |-> "login", dto |-> dto, at |-> now,
                       ok |-> result.ok, error |-> result.error,
                       tokens |-> result.tokens]
           /\ UNCHANGED <<env, now, registered>>

\* the routing layer verifies a presented token: one of a kept pair, or the
\* same claims signed by someone who does not know the secrets
Verify ==
    \E h \in held, which \in {"access_token", "refresh_token"},
       secret \in {ACCESS_SECRET, REFRESH_SECRET}, forged \in BOOLEAN :
        LET token == IF forged
                     THEN jwt_encode(h.tokens[which].payload, "attacker_key")
                     ELSE h.tokens[which]
            result == verify(token, secret, now)
        IN /\ last' = [op |-> "verify", which |-> which, forged |-> forged,
                       token |-> token, secret |-> secret, at |-> now,
                       ok |-> result.ok, error |-> result.error,
                       user_id |-> result.user_id]
           /\ UNCHANGED <<env, users, storeWrites, now, held, registered>>

Tick ==
    /\ \E t \in Instants : t > now /\ now' = t
    /\ UNCHANGED <<env, users, storeWrites, held, registered, last>>

NextAuth ==
    \/ Register /\ UNCHANGED <<postVars, runVars>>
    \/ Login /\ UNCHANGED <<postVars, runVars>>
    \/ Verify /\ UNCHANGED <<postVars, runVars>>
    \/ Tick /\ UNCHANGED <<postVars, runVars>>

SpecAuth == AuthInit /\ [][NextAuth]_vars

----------------------------------------------------------------------------
(* Post Store and Post Service (services/post_service.py) *)

None == 0   \* an absent reply_to_id; post ids start at 1

\* the Post Store as one value
Store == [posts |-> posts, postSeq |-> postSeq, views |-> views,
          likes |-> likes]

Done(store) == [raised |-> "", store |-> store]
Fail(kind, store) == [raised |-> kind, store |-> store]

create_post(dto) ==
    IF storeDown THEN Fail("StoreUnavailable", Store)
    ELSE IF dto.reply_to_id # None /\ dto.reply_to_id \notin DOMAIN posts
    THEN Fail("ParentNotFound", Store)
    ELSE LET id == postSeq + 1
             row == [id |-> id, owner_id |-> dto.user_id,
                     reply_to_id |-> dto.reply_to_id, body |-> dto.text,
                     created_at |-> now, view_count |-> 0, like_count |-> 0]
         IN Done([Store EXCEPT !.posts = (id :> row) @@ posts,
                               !.postSeq = id])

delete_post(post_id, requester_id) ==
    IF storeDown THEN Fail("StoreUnavailable", Store)
    ELSE IF post_id \notin DOMAIN posts THEN Fail("PostNotFound", Store)
    ELSE IF posts[post_id].owner_id # requester_id
    THEN Fail("NotOwner", Store)
    ELSE Done([Store EXCEPT
                 !.posts = [p \in DOMAIN posts \ {post_id} |-> posts[p]],
                 !.views = {e \in views : e[1] # post_id},
                 !.likes = {e \in likes : e[1] # post_id}])

view_post(post_id, viewer_id) ==
    IF storeDown THEN Fail("StoreUnavailable", Store)
    ELSE IF post_id \notin DOMAIN posts THEN Fail("PostNotFound", Store)
    ELSE IF <<post_id, viewer_id>> \in views THEN Done(Store)
    ELSE Done([Store EXCEPT
                 !.views = views \cup {<<post_id, viewer_id>>},
                 !.posts[post_id].view_count = @ + 1])

like_post(post_id, viewer_id) ==
    IF storeDown THEN Fail("StoreUnavailable", Store)
    ELSE IF post_id \notin DOMAIN posts THEN Fail("PostNotFound", Store)
    ELSE IF <<post_id, viewer_id>> \in likes THEN Done(Store)
    ELSE Done([Store EXCEPT
                 !.likes = likes \cup {<<post_id, viewer_id>>},
                 !.posts[post_id].like_count = @ + 1])

dislike_post(post_id, viewer_id) ==
    IF storeDown THEN Fail("StoreUnavailable", Store)
    ELSE IF post_id \notin DOMAIN posts THEN Fail("PostNotFound", Store)
    ELSE IF <<post_id, viewer_id>> \notin likes THEN Done(Store)
    ELSE Done([Store EXCEPT
                 !.likes = likes \ {<<post_id, viewer_id>>},
                 !.posts[post_id].like_count = @ - 1])

----------------------------------------------------------------------------
(* controllers/post_controller.py *)

HTTP_201_CREATED == 201
HTTP_204_NO_CONTENT == 204
HTTP_400_BAD_REQUEST == 400
HTTP_404_NOT_FOUND == 404

\* the response of a handler: the route's status code when the service
\* returns, else the HTTPException built from the caught exception
Respond(call, success, failure) ==
    IF call.raised = ""
    THEN [status |-> success, detail |-> "", store |-> call.store]
    ELSE [status |-> failure, detail |-> call.raised, store |-> call.store]

\* the handler that trusts the user_id of the request body
create_post_handler_keeps_body_user(dto, user) ==
    Respond(create_post(dto), HTTP_201_CREATED, HTTP_400_BAD_REQUEST)

\* the handler that loses the reply_to_id of the request body
create_post_handler_drops_reply(dto, user) ==
    Respond(create_post([dto EXCEPT !.user_id = user.sub,
                                    !.reply_to_id = None]),
            HTTP_201_CREATED, HTTP_400_BAD_REQUEST)

create_post_handler(dto, user) ==
    Respond(create_post([dto EXCEPT !.user_id = user.sub]),
            HTTP_201_CREATED, HTTP_400_BAD_REQUEST)

delete_post_handler_swapped_arguments(post_id, user) ==
    Respond(delete_post(user.sub, post_id),
            HTTP_204_NO_CONTENT, HTTP_404_NOT_FOUND)

\* the handler that answers without calling the service
delete_post_handler_skips_call(post_id, user) ==
    Respond(Done(Store), HTTP_204_NO_CONTENT, HTTP_404_NOT_FOUND)

\* the handler that tells a requester who is not the owner apart by status
delete_post_handler_forbidden(post_id, user) ==
    LET call == delete_post(post_id, user.sub)
    IN Respond(call, HTTP_204_NO_CONTENT,
               IF call.raised = "NotOwner" THEN 403 ELSE HTTP_404_NOT_FOUND)

delete_post_handler(post_id, user) ==
    Respond(delete_post(post_id, user.sub),
            HTTP_204_NO_CONTENT, HTTP_404_NOT_FOUND)

view_post_handler_calls_like(post_id, user) ==
    Respond(like_post(post_id, user.sub),
            HTTP_201_CREATED, HTTP_404_NOT_FOUND)

view_post_handler(post_id, user) ==
    Respond(view_post(post_id, user.sub),
            HTTP_201_CREATED, HTTP_404_NOT_FOUND)

like_post_handler_calls_view(post_id, user) ==
    Respond(view_post(post_id, user.sub),
            HTTP_201_CREATED, HTTP_404_NOT_FOUND)

like_post_handler_calls_dislike(post_id, user) ==
    Respond(dislike_post(post_id, user.sub),
            HTTP_201_CREATED, HTTP_404_NOT_FOUND)

like_post_handler(post_id, user) ==
    Respond(like_post(post_id, user.sub),
            HTTP_201_CREATED, HTTP_404_NOT_FOUND)

dislike_post_handler_calls_like(post_id, user) ==
    Respond(like_post(post_id, user.sub),
            HTTP_204_NO_CONTENT, HTTP_404_NOT_FOUND)

dislike_post_handler(post_id, user) ==
    Respond(dislike_post(post_id, user.sub),
            HTTP_204_NO_CONTENT, HTTP_404_NOT_FOUND)

----------------------------------------------------------------------------
(* The post endpoints as a state machine *)

UserIds == 1..MaxUsers
PostIds == 1..MaxPosts    \* the ids a request may name

\* get_current_user: the verified subject of the request's token
CurrentUsers == [sub : UserIds]

\* request bodies of POST /posts; user_id is whatever the caller put there
CreateDtos(parents) == [user_id : UserIds, text : {"hello"},
                        reply_to_id : parents]

\* the registered population the post endpoints serve
Population ==
    { [id |-> i, user_name |-> "user" \o ToString(i),
       password_hash |-> hashpw("pw1", "saltA"),
       first_name |-> "First", last_name |-> "Last"] : i \in UserIds }

PostInit ==
    /\ env = [n \in {} |-> ""]
    /\ users = Population
    /\ storeWrites = MaxUsers
    /\ now = 0
    /\ held = {}
    /\ registered = { [user_name |-> u.user_name, password |-> "pw1",
                       subjects |-> {ToString(u.id)}] : u \in Population }
    /\ last = Idle
    /\ PostIdle

\* what the request found: the like relation and counter it started from
Before(post_id, sub) ==
    [liked |-> <<post_id, sub>> \in likes,
     like_count |-> IF post_id \in DOMAIN posts
                    THEN posts[post_id].like_count ELSE 0]

Commit(op, post_id, user, response) ==
    /\ posts' = response.store.posts
    /\ postSeq' = response.store.postSeq
    /\ views' = response.store.views
    /\ likes' = response.store.likes
    /\ resp' = [op |-> op, post_id |-> post_id, sub |-> user.sub,
                status |-> response.status, detail |-> response.detail,
                before |-> Before(post_id, user.sub)]

CreatePost ==
    /\ postSeq < MaxPosts
    /\ \E dto \in CreateDtos({None}), user \in CurrentUsers :
        Commit("create", postSeq + 1, user, create_post_handler(dto, user))

DeletePost ==
    \E post_id \in PostIds, user \in CurrentUsers :
        Commit("delete", post_id, user, delete_post_handler(post_id, user))

ViewPost ==
    \E post_id \in PostIds, user \in CurrentUsers :
        Commit("view", post_id, user, view_post_handler(post_id, user))

LikePost ==
    \E post_id \in PostIds, user \in CurrentUsers :
        Commit("like", post_id, user, like_post_handler(post_id, user))

DislikePost ==
    \E post_id \in PostIds, user \in CurrentUsers :
        Commit("dislike", post_id, user, dislike_post_handler(post_id, user))

NextPost ==
    \/ CreatePost /\ UNCHANGED <<authVars, runVars>>
    \/ DeletePost /\ UNCHANGED <<authVars, runVars>>
    \/ ViewPost /\ UNCHANGED <<authVars, runVars>>
    \/ LikePost /\ UNCHANGED <<authVars, runVars>>
    \/ DislikePost /\ UNCHANGED <<authVars, runVars>>

SpecPost == PostInit /\ [][NextPost]_vars

----------------------------------------------------------------------------
(* Properties of the authentication service (checked under SpecAuth) *)

Known(dto) == \E c \in registered : c.user_name = dto.user_name
Matches(dto) ==
    \E c \in registered :
        c.user_name = dto.user_name /\ c.password = dto.password

\* C1: registering a username that is already registered fails with the
\* ValueError "User already exists" (the conflict error) and writes nothing,
\* and whatever register calls were made, the store holds exactly one user
\* per registered username (and never two with one username).
C1_DuplicateRegisterFails ==
    /\ \A name \in Usernames :
          Cardinality(get_user_by_username(name)) =
              IF \E c \in registered : c.user_name = name THEN 1 ELSE 0
    /\ \A dto \in Dtos, salt \in Salts :
          Known(dto) =>
              LET second == register(dto, salt)
              IN /\ ~second.ok
                 /\ second.error = "User already exists"
                 /\ second.tokens = {}
                 /\ second.users = users
    /\ last.op = "register" =>
          /\ Cardinality(get_user_by_username(last.dto.user_name)) = 1
          /\ ~last.ok => last.error = "User already exists"

\* a register call on a taken username has been answered
C1_Witness ==
    /\ last.op = "register"
    /\ ~last.ok
    /\ last.error = "User already exists"
    /\ Cardinality(get_user_by_username(last.dto.user_name)) = 1
    /\ Cardinality(users) = 2

\* C2: once (username, password) has been registered, login with the same
\* credentials succeeds, and the tokens of the register call and of the login
\* call all carry as subject the id the store assigned to that user.
C2_RegisterThenLogin ==
    /\ \A c \in registered :
          LET dto == [user_name |-> c.user_name, password |-> c.password,
                      first_name |-> "First", last_name |-> "Last"]
              again == login(dto)
          IN /\ again.ok
             /\ again.tokens # {}
             /\ \E u \in users :
                   /\ u.user_name = c.user_name
                   /\ c.subjects = {ToString(u.id)}
                   /\ Subjects(again.tokens) = {ToString(u.id)}
    /\ (last.op = "login" /\ Matches(last.dto)) =>
          /\ last.ok
          /\ \E c \in registered :
                /\ c.user_name = last.dto.user_name
                /\ Subjects(last.tokens) = c.subjects

\* a login with registered credentials has returned a pair for the second
\* user the store created
C2_Witness ==
    /\ last.op = "login"
    /\ last.ok
    /\ Matches(last.dto)
    /\ Subjects(last.tokens) = {"2"}

\* the step answers a call of op: every call sets last and leaves the clock,
\* a clock step leaves last
Called(op) == last'.op = op /\ now' = now

\* C3: login fails with "User not found" when no user has the username and
\* with "Wrong password" when the password is not the registered one, and
\* a failed login returns no token pair; a login step never writes to the
\* store, and a successful register step writes exactly once.
C3_LoginFailures ==
    /\ [][Called("login") =>
             /\ ~Known(last'.dto) =>
                   (~last'.ok /\ last'.error = "User not found")
             /\ (Known(last'.dto) /\ ~Matches(last'.dto)) =>
                   (~last'.ok /\ last'.error = "Wrong password")
             /\ ~last'.ok => (last'.tokens = {} /\ held' = held)
             /\ storeWrites' = storeWrites
             /\ users' = users]_vars
    /\ [][(Called("register") /\ last'.ok) =>
             /\ storeWrites' = storeWrites + 1
             /\ Cardinality(users') = Cardinality(users) + 1]_vars

\* a login with a wrong password for a registered user has been refused
C3_Witness ==
    /\ last.op = "login"
    /\ ~last.ok
    /\ Known(last.dto)
    /\ ~Matches(last.dto)
    /\ last.error = "Wrong password"
    /\ storeWrites = 1

\* C4: a login that fails on a wrong password for an existing username and a
\* login that fails on a username nobody registered give the caller the same
\* error (kind and message).
C4_SameFailure ==
    \A wrong \in Dtos, absent \in Dtos :
        (Known(wrong) /\ ~Matches(wrong) /\ ~Known(absent)) =>
            /\ ~login(wrong).ok
            /\ ~login(absent).ok
            /\ login(wrong).error = login(absent).error

\* the secret a token of a pair is signed with
SigningSecret(which) ==
    IF which = "access_token" THEN ACCESS_SECRET ELSE REFRESH_SECRET

\* the pair the verified token was taken from
Source(record) ==
    CHOOSE h \in held :
        h.tokens[record.which].payload = record.token.payload

\* C8: verified with the secret it was signed with, a token whose exp is at
\* or before the verification instant fails with ExpiredToken; a token signed
\* with another secret than the verifier's fails with InvalidToken; and an
\* access token minted at instant t verifies to its subject at every instant
\* from t on that is before t + ACCESS_EXPIRES.
C8_ExpiryAndSignature ==
    /\ \A h \in held :
          (h.issued_at <= now /\ now < h.issued_at + ACCESS_EXPIRES) =>
              LET v == verify(h.tokens.access_token, ACCESS_SECRET, now)
              IN v.ok /\ v.user_id = h.tokens.access_token.payload.sub
    /\ last.op = "verify" =>
          /\ (~last.forged /\ last.secret = SigningSecret(last.which)
                /\ last.token.payload.exp <= last.at) =>
                (~last.ok /\ last.error = "ExpiredToken")
          /\ (last.forged \/ last.secret # SigningSecret(last.which)) =>
                (~last.ok /\ last.error = "InvalidToken")
          /\ (~last.forged /\ last.which = "access_token"
                /\ last.secret = ACCESS_SECRET
                /\ last.at < Source(last).issued_at + ACCESS_EXPIRES) =>
                (last.ok /\ last.user_id = last.token.payload.sub)

\* an access token was verified in the last second of its lifetime
C8_Witness ==
    /\ last.op = "verify"
    /\ ~last.forged
    /\ last.which = "access_token"
    /\ last.secret = ACCESS_SECRET
    /\ last.at = Source(last).issued_at + ACCESS_EXPIRES - 1
    /\ last.at > Source(last).issued_at
    /\ last.ok

\* a token was verified at the very second of its exp
C8_WitnessExpired ==
    /\ last.op = "verify"
    /\ last.token.payload.exp = last.at
    /\ last.error = "ExpiredToken"

C10_PairFromOneInstant ==
    /\ "ACCESS_TOKEN_EXPIRES" \notin DOMAIN env => ACCESS_EXPIRES = 3600
    /\ "REFRESH_TOKEN_EXPIRES" \notin DOMAIN env => REFRESH_EXPIRES = 86400
    /\ (last.op \in {"register", "login"} /\ last.ok) =>
          /\ Cardinality(last.tokens) = 1
          /\ \A p \in last.tokens :
                /\ \E u \in users :
                      /\ u.user_name = last.dto.user_name
                      /\ p.access_token.payload.sub = ToString(u.id)
                      /\ p.refresh_token.payload.sub = ToString(u.id)
                /\ p.access_token.payload.exp = last.at + ACCESS_EXPIRES
                /\ p.refresh_token.payload.exp = last.at + REFRESH_EXPIRES
                /\ p.access_token.sig =
                      HS256(p.access_token.payload, ACCESS_SECRET)
                /\ p.refresh_token.sig =
                      HS256(p.refresh_token.payload, REFRESH_SECRET)

\* a login under the default lifetimes returned a pair after the clock moved
C10_Witness ==
    /\ last.op = "login"
    /\ last.ok
    /\ last.at > 0
    /\ DOMAIN env = {}
    /\ \E p \in last.tokens :
          p.refresh_token.payload.exp - p.access_token.payload.exp = 82800

----------------------------------------------------------------------------
(* Properties of the post endpoints (checked under SpecPost) *)

\* the request the step answers
Answers(op, post_id, sub) ==
    resp'.op = op /\ resp'.post_id = post_id /\ resp'.sub = sub

StoreUnchanged == UNCHANGED <<posts, postSeq, views, likes>>

\* C5: a like request on an existing post is answered 201 and leaves the
\* viewer's relation Liked; it adds 1 to like_count when the relation was
\* NotLiked and, when it was already Liked, changes nothing in the store and
\* is still answered 201: however often it is repeated, like_count stays 1
\* above its NotLiked value.
C5_LikeIdempotent ==
    [][\A p \in DOMAIN posts, u \in UserIds :
          Answers("like", p, u) =>
              /\ resp'.status = HTTP_201_CREATED
              /\ <<p, u>> \in likes'
              /\ p \in DOMAIN posts'
              /\ IF <<p, u>> \in likes
                 THEN StoreUnchanged
                 ELSE /\ posts'[p].like_count = posts[p].like_count + 1
                      /\ likes' = likes \cup {<<p, u>>}
              /\ (resp.op = "like" /\ resp.post_id = p /\ resp.sub = u
                    /\ resp.status = HTTP_201_CREATED) =>
                    posts'[p].like_count =
                        resp.before.like_count
                            + (IF resp.before.liked THEN 0 ELSE 1)]_vars

\* a like was repeated by a viewer who already liked the post
C5_Witness ==
    /\ resp.op = "like"
    /\ resp.status = HTTP_201_CREATED
    /\ resp.before.liked
    /\ resp.post_id \in DOMAIN posts
    /\ posts[resp.post_id].like_count = resp.before.like_count
    /\ <<resp.post_id, resp.sub>> \in likes

\* C6: a dislike request on an existing post is answered 204 and leaves the
\* relation NotLiked; it takes 1 from like_count when the relation was Liked
\* and changes nothing when it was NotLiked; a dislike right after the same
\* viewer's first like returns like_count to the value before the like; and
\* like_count is never negative.
C6_LikeThenDislike ==
    /\ [][\A p \in DOMAIN posts' : posts'[p].like_count >= 0]_vars
    /\ [][\A p \in DOMAIN posts, u \in UserIds :
            Answers("dislike", p, u) =>
                /\ resp'.status = HTTP_204_NO_CONTENT
                /\ <<p, u>> \notin likes'
                /\ p \in DOMAIN posts'
                /\ IF <<p, u>> \in likes
                   THEN /\ posts'[p].like_count = posts[p].like_count - 1
                        /\ likes' = likes \ {<<p, u>>}
                   ELSE StoreUnchanged
                /\ (resp.op = "like" /\ resp.post_id = p /\ resp.sub = u
                      /\ resp.status = HTTP_201_CREATED
                      /\ ~resp.before.liked) =>
                      posts'[p].like_count = resp.before.like_count]_vars

\* a dislike undid a like and brought the counter back to zero
C6_Witness ==
    /\ resp.op = "dislike"
    /\ resp.status = HTTP_204_NO_CONTENT
    /\ resp.before.liked
    /\ resp.before.like_count = 1
    /\ resp.post_id \in DOMAIN posts
    /\ posts[resp.post_id].like_count = 0
    /\ <<resp.post_id, resp.sub>> \notin likes

\* a dislike without a like was answered 204
C6_WitnessNoOp ==
    /\ resp.op = "dislike"
    /\ resp.status = HTTP_204_NO_CONTENT
    /\ ~resp.before.liked
    /\ resp.post_id \in DOMAIN posts

\* C7: a delete request by someone other than the post's owner fails with
\* NotOwner and leaves posts, counters and edges as they were, the post
\* still there; a delete request for an id that is no post fails with
\* PostNotFound; and a post disappears only in a step that answers a delete
\* request for it made by its owner.
C7_DeleteOwnerOnly ==
    /\ [][\A p \in PostIds, u \in UserIds :
            Answers("delete", p, u) =>
                IF p \notin DOMAIN posts
                THEN /\ resp'.status = HTTP_404_NOT_FOUND
                     /\ resp'.detail = "PostNotFound"
                     /\ StoreUnchanged
                ELSE IF posts[p].owner_id # u
                THEN /\ resp'.status = HTTP_404_NOT_FOUND
                     /\ resp'.detail = "NotOwner"
                     /\ StoreUnchanged
                     /\ p \in DOMAIN posts'
                ELSE /\ resp'.status = HTTP_204_NO_CONTENT
                     /\ p \notin DOMAIN posts']_vars
    /\ [][\A p \in DOMAIN posts :
            p \notin DOMAIN posts' =>
                Answers("delete", p, posts[p].owner_id)]_vars

\* a viewer who liked and viewed another user's post was refused its deletion
C7_Witness ==
    /\ resp.op = "delete"
    /\ resp.status = HTTP_404_NOT_FOUND
    /\ resp.detail = "NotOwner"
    /\ resp.post_id \in DOMAIN posts
    /\ posts[resp.post_id].owner_id # resp.sub
    /\ posts[resp.post_id].like_count = 1
    /\ posts[resp.post_id].view_count = 1

----------------------------------------------------------------------------
(* Listing: Post Service get_all_posts and its handler *)

HTTP_200_OK == 200
DefaultLimit == 100
DefaultOffset == 0

\* a str is its sequence of characters; an absent search is the empty one
NoSearch == <<>>

\* search occurs in body
Contains(body, search) ==
    \E i \in 0..(Len(body) - Len(search)) :
        SubSeq(body, i + 1, i + Len(search)) = search

\* a was created after b
Newer(a, b) ==
    \/ a.created_at > b.created_at
    \/ a.created_at = b.created_at /\ a.id > b.id

\* the rows, most recent first
RECURSIVE ByRecency(_)
ByRecency(rows) ==
    IF rows = {} THEN <<>>
    ELSE LET first == CHOOSE r \in rows : \A o \in rows \ {r} : Newer(r, o)
         IN <<first>> \o ByRecency(rows \ {first})

Min(a, b) == IF a <= b THEN a ELSE b

\* queryPosts: the rows that satisfy every predicate the filter carries
Selected(filter) ==
    { posts[p] : p \in
        { q \in DOMAIN posts :
            /\ filter.reply_to_id = None
                  \/ posts[q].reply_to_id = filter.reply_to_id
            /\ filter.owner_id = None \/ posts[q].owner_id = filter.owner_id
            /\ Contains(posts[q].body, filter.search) } }

\* the view model of a row for a viewer
ReadModel(row, viewer_id) ==
    [id |-> row.id, owner_id |-> row.owner_id,
     reply_to_id |-> row.reply_to_id, body |-> row.body,
     created_at |-> row.created_at, view_count |-> row.view_count,
     like_count |-> row.like_count,
     liked |-> <<row.id, viewer_id>> \in likes]

get_all_posts(filter) ==
    IF storeDown
    THEN [raised |-> "StoreUnavailable", store |-> Store, value |-> <<>>]
    ELSE LET ordered == ByRecency(Selected(filter))
             page == SubSeq(ordered, filter.offset + 1,
                            Min(filter.offset + filter.limit, Len(ordered)))
         IN [raised |-> "", store |-> Store,
             value |-> [i \in 1..Len(page) |->
                           ReadModel(page[i], filter.user_id)]]

\* the response of GET /posts: the page, or the HTTPException
Listing(call) ==
    IF call.raised = ""
    THEN [status |-> HTTP_200_OK, detail |-> "", store |-> call.store,
          body |-> call.value]
    ELSE [status |-> HTTP_400_BAD_REQUEST, detail |-> call.raised,
          store |-> call.store, body |-> <<>>]

\* limit and offset change places in the filter
get_all_posts_handler_swapped_paging(query, user) ==
    Listing(get_all_posts(
        [user_id |-> user.sub, limit |-> query.offset,
         offset |-> query.limit, reply_to_id |-> query.reply_to_id,
         owner_id |-> query.owner_id, search |-> query.search]))

\* the filter carries the owner filter as the viewer
get_all_posts_handler_viewer_from_query(query, user) ==
    Listing(get_all_posts(
        [user_id |-> query.owner_id, limit |-> query.limit,
         offset |-> query.offset, reply_to_id |-> query.reply_to_id,
         owner_id |-> query.owner_id, search |-> query.search]))

\* query holds the query parameters after Query() filled in the defaults
get_all_posts_handler(query, user) ==
    Listing(get_all_posts(
        [user_id |-> user.sub, limit |-> query.limit,
         offset |-> query.offset, reply_to_id |-> query.reply_to_id,
         owner_id |-> query.owner_id, search |-> query.search]))

----------------------------------------------------------------------------
(* The feed: creating posts and replies, deleting and listing them *)

FeedPosts == MaxPosts + 1      \* a thread needs a post and a reply
FeedIds == 1..FeedPosts
Bodies == {<<"a">>, <<"a", "b">>}

FeedDtos == [user_id : {1}, text : Bodies, reply_to_id : {None} \cup FeedIds]

\* the users of the feed
FeedUsers == [sub : {1, 2}]

\* the query strings examined in every state of the feed
Queries ==
    [limit : {1, 2, DefaultLimit},
     offset : {DefaultOffset, 1, FeedPosts},
     reply_to_id : {None, 1}, owner_id : {None, 1},
     search : {NoSearch, <<"b">>}]

\* the query strings clients send: the whole feed or a thread, by pages
Asked ==
    { q \in Queries : /\ q.owner_id = None /\ q.search = NoSearch
                      /\ q.limit \in {1, DefaultLimit}
                      /\ q.offset \in {DefaultOffset, 1} }

FeedInit == PostInit

\* a request of the feed is answered: the store and the response
Answer(op, request, user, response) ==
    /\ posts' = response.store.posts
    /\ postSeq' = response.store.postSeq
    /\ views' = response.store.views
    /\ likes' = response.store.likes
    /\ resp' = [op |-> op, request |-> request, sub |-> user.sub,
                status |-> response.status, detail |-> response.detail,
                body |-> IF op = "list" THEN response.body ELSE <<>>]

FeedCreate ==
    /\ postSeq < FeedPosts
    /\ \E dto \in FeedDtos, user \in FeedUsers :
        Answer("create", dto, user, create_post_handler(dto, user))

FeedDelete ==
    \E post_id \in FeedIds, user \in FeedUsers :
        Answer("delete", post_id, user, delete_post_handler(post_id, user))

FeedList ==
    \E query \in Asked, user \in FeedUsers :
        Answer("list", query, user, get_all_posts_handler(query, user))

\* a second passes; the clock is not followed beyond the posts it can date
FeedTick ==
    /\ now < postSeq
    /\ now' = now + 1
    /\ UNCHANGED <<posts, postSeq, views, likes, resp>>

NextFeed ==
    \/ FeedCreate /\ UNCHANGED <<authVars, runVars>>
    \/ FeedDelete /\ UNCHANGED <<authVars, runVars>>
    \/ FeedList /\ UNCHANGED <<authVars, runVars>>
    \/ FeedTick /\ UNCHANGED <<env, users, storeWrites, held, registered,
                               last, runVars>>

SpecFeed == FeedInit /\ [][NextFeed]_vars

----------------------------------------------------------------------------
(* Properties of the feed (checked under SpecFeed) *)

\* the posts a query selects, predicate by predicate
Matching(query) ==
    { p \in DOMAIN posts :
        /\ query.reply_to_id # None =>
              posts[p].reply_to_id = query.reply_to_id
        /\ query.owner_id # None => posts[p].owner_id = query.owner_id
        /\ query.search # NoSearch => Contains(posts[p].body, query.search) }

\* the recency rank of post p among the posts of M: 1 is the most recent
Rank(p, M) == 1 + Cardinality({o \in M : Newer(posts[o], posts[p])})

\* body is the page of the query: the matching posts of ranks
\* offset+1 .. min(offset+limit, N), in that order, as the store holds them
IsPage(query, body) ==
    LET M == Matching(query)
        N == Cardinality(M)
        last_rank == Min(query.offset + query.limit, N)
    IN /\ Len(body) = IF last_rank > query.offset
                      THEN last_rank - query.offset ELSE 0
       /\ \A i \in 1..Len(body) :
             /\ body[i].id \in M
             /\ Rank(body[i].id, M) = query.offset + i
             /\ body[i].owner_id = posts[body[i].id].owner_id
             /\ body[i].body = posts[body[i].id].body
             /\ body[i].created_at = posts[body[i].id].created_at

\* C11: for every query (limit, offset, reply_to_id, owner_id, search) the
\* list handler answers 200 with exactly the matching posts of recency ranks
\* offset+1 .. min(offset+limit, N), most recent first, and hands the store
\* back as it found it; so does every list response given.
C11_ListPage ==
    /\ \A query \in Queries :
          LET response == get_all_posts_handler(query, [sub |-> 1])
          IN /\ response.status = HTTP_200_OK
             /\ IsPage(query, response.body)
             /\ response.store = Store
    /\ resp.op = "list" =>
          /\ resp.status = HTTP_200_OK
          /\ IsPage(resp.request, resp.body)

\* the second page of one post was listed while two posts existed: it holds
\* the older post
C11_Witness ==
    /\ resp.op = "list"
    /\ resp.request.limit = 1
    /\ resp.request.offset = 1
    /\ resp.request.reply_to_id = None
    /\ Cardinality(DOMAIN posts) = 2
    /\ Len(resp.body) = 1
    /\ \A p \in DOMAIN posts : resp.body[1].id <= p

\* the step answers a create request (a clock step keeps the last response)
Created == resp'.op = "create" /\ now' = now

\* C12: a create request whose reply_to_id names no existing post is refused
\* with ParentNotFound and inserts nothing; any other create request inserts
\* exactly one post, owned by the requester, with view_count 0 and
\* like_count 0 and the reply_to_id asked for; and a full listing of the
\* thread of P returns exactly the existing posts created as replies to P.
C12_ReplyNeedsParent ==
    /\ [][Created =>
            IF /\ resp'.request.reply_to_id # None
               /\ resp'.request.reply_to_id \notin DOMAIN posts
            THEN /\ resp'.status = HTTP_400_BAD_REQUEST
                 /\ resp'.detail = "ParentNotFound"
                 /\ StoreUnchanged
            ELSE /\ resp'.status = HTTP_201_CREATED
                 /\ Cardinality(DOMAIN posts' \ DOMAIN posts) = 1
                 /\ \A id \in DOMAIN posts' \ DOMAIN posts :
                       /\ DOMAIN posts' = DOMAIN posts \cup {id}
                       /\ posts'[id].owner_id = resp'.sub
                       /\ posts'[id].view_count = 0
                       /\ posts'[id].like_count = 0
                       /\ posts'[id].reply_to_id = resp'.request.reply_to_id
                       /\ posts'[id].body = resp'.request.text
                 /\ \A p \in DOMAIN posts : posts'[p] = posts[p]
                 /\ UNCHANGED <<views, likes>>]_vars
    /\ [][(resp'.op = "list" /\ resp'.request.reply_to_id # None
              /\ resp'.request.limit = DefaultLimit
              /\ resp'.request.offset = DefaultOffset) =>
            {resp'.body[i].id : i \in 1..Len(resp'.body)} =
                {p \in DOMAIN posts' :
                    posts'[p].reply_to_id = resp'.request.reply_to_id}]_vars

\* the thread of post 1 was listed and is exactly its reply, post 2,
\* written by the other user
C12_Witness ==
    /\ resp.op = "list"
    /\ resp.request.reply_to_id = 1
    /\ resp.request.limit = DefaultLimit
    /\ resp.request.offset = DefaultOffset
    /\ Len(resp.body) = 1
    /\ resp.body[1].id = 2
    /\ resp.body[1].reply_to_id = 1
    /\ 1 \in DOMAIN posts
    /\ posts[1].owner_id # posts[2].owner_id

\* a reply to a post that does not exist was refused
C12_WitnessRefused ==
    /\ resp.op = "create"
    /\ resp.status = HTTP_400_BAD_REQUEST
    /\ resp.detail = "ParentNotFound"

----------------------------------------------------------------------------
(* Views (checked under SpecView: create, delete and view requests) *)

\* a request answered: the store the service left and the response, with
\* what the store held of the requester's edges when the request arrived
Record(op, post_id, user, response) ==
    /\ posts' = response.store.posts
    /\ postSeq' = response.store.postSeq
    /\ views' = response.store.views
    /\ likes' = response.store.likes
    /\ resp' = [op |-> op, post_id |-> post_id, sub |-> user.sub,
                status |-> response.status, detail |-> response.detail,
                before |-> [viewed |-> <<post_id, user.sub>> \in views,
                            liked |-> <<post_id, user.sub>> \in likes,
                            existed |-> post_id \in DOMAIN posts]]

SeenCreate ==
    /\ postSeq < FeedPosts
    /\ \E dto \in CreateDtos({None}), user \in FeedUsers :
        Record("create", postSeq + 1, user, create_post_handler(dto, user))

SeenDelete ==
    \E post_id \in FeedIds, user \in FeedUsers :
        Record("delete", post_id, user, delete_post_handler(post_id, user))

SeenView ==
    \E post_id \in FeedIds, user \in FeedUsers :
        Record("view", post_id, user, view_post_handler(post_id, user))

NextView ==
    \/ SeenCreate /\ UNCHANGED <<authVars, runVars>>
    \/ SeenDelete /\ UNCHANGED <<authVars, runVars>>
    \/ SeenView /\ UNCHANGED <<authVars, runVars>>

SpecView == PostInit /\ [][NextView]_vars

\* C13: a view request on a post that does not exist is answered 404
\* PostNotFound and changes nothing; on an existing post it is answered 201
\* and leaves the viewer's view edge in place, adding the edge and 1 to
\* view_count when the edge was not there and changing nothing when it was;
\* so the view_count of every post is the number of its viewers.
C13_ViewOncePerViewer ==
    /\ [][\A p \in DOMAIN posts' :
            posts'[p].view_count =
                Cardinality({e \in views' : e[1] = p})]_vars
    /\ [][\A p \in FeedIds, u \in {1, 2} :
            Answers("view", p, u) =>
                IF p \notin DOMAIN posts
                THEN /\ resp'.status = HTTP_404_NOT_FOUND
                     /\ resp'.detail = "PostNotFound"
                     /\ StoreUnchanged
                ELSE /\ resp'.status = HTTP_201_CREATED
                     /\ <<p, u>> \in views'
                     /\ IF <<p, u>> \in views
                        THEN StoreUnchanged
                        ELSE /\ views' = views \cup {<<p, u>>}
                             /\ posts' = [posts EXCEPT
                                            ![p].view_count = @ + 1]
                             /\ UNCHANGED <<postSeq, likes>>]_vars

\* a viewer viewed again a post that two viewers had already viewed: the
\* request succeeded and the counter stayed at two
C13_Witness ==
    /\ resp.op = "view"
    /\ resp.status = HTTP_201_CREATED
    /\ resp.before.viewed
    /\ resp.post_id \in DOMAIN posts
    /\ posts[resp.post_id].view_count = 2
    /\ Cardinality({e \in views : e[1] = resp.post_id}) = 2

\* a view of a post that does not exist was refused
C13_WitnessAbsent ==
    /\ resp.op = "view"
    /\ resp.status = HTTP_404_NOT_FOUND
    /\ resp.detail = "PostNotFound"

----------------------------------------------------------------------------
(* Concurrent like and dislike requests (SpecConc).  The handlers run on
   worker threads, so several requests are in flight at once; each handler
   makes one service call, which the store runs as one transaction. *)

LikeRequests == [op : {"like", "dislike"}, post_id : PostIds, sub : {1, 2}]

\* the other requests of the same viewer on the same post that are in flight
Rivals(request) ==
    {other \in inflight \ {request} :
        other.post_id = request.post_id /\ other.sub = request.sub}

\* a worker answers a request that was in flight
Serve(request, response) ==
    /\ posts' = response.store.posts
    /\ postSeq' = response.store.postSeq
    /\ views' = response.store.views
    /\ likes' = response.store.likes
    /\ inflight' = inflight \ {request}
    /\ resp' = [op |-> request.op, post_id |-> request.post_id,
                sub |-> request.sub,
                status |-> response.status, detail |-> response.detail,
                raced |-> Rivals(request) # {}]

ConcCreate ==
    /\ postSeq < MaxPosts
    /\ \E dto \in CreateDtos({None}), user \in FeedUsers :
        LET response == create_post_handler(dto, user)
        IN /\ posts' = response.store.posts
           /\ postSeq' = response.store.postSeq
           /\ views' = response.store.views
           /\ likes' = response.store.likes
           /\ resp' = [op |-> "create", post_id |-> postSeq + 1,
                       sub |-> user.sub,
                       status |-> response.status,
                       detail |-> response.detail, raced |-> FALSE]
           /\ UNCHANGED inflight

\* a request is accepted while others are still being served
Arrive ==
    \E request \in LikeRequests \ inflight :
        /\ inflight' = inflight \cup {request}
        /\ UNCHANGED <<posts, postSeq, views, likes, resp>>

ServeLike ==
    \E request \in inflight :
        /\ request.op = "like"
        /\ Serve(request,
                 like_post_handler(request.post_id, [sub |-> request.sub]))

ServeDislike ==
    \E request \in inflight :
        /\ request.op = "dislike"
        /\ Serve(request,
                 dislike_post_handler(request.post_id, [sub |-> request.sub]))

NextConc ==
    \/ ConcCreate /\ UNCHANGED <<authVars, storeDown>>
    \/ Arrive /\ UNCHANGED <<authVars, storeDown>>
    \/ ServeLike /\ UNCHANGED <<authVars, storeDown>>
    \/ ServeDislike /\ UNCHANGED <<authVars, storeDown>>

SpecConc == PostInit /\ [][NextConc]_vars

\* the request the step serves
Serves(request) == request \in inflight /\ inflight' = inflight \ {request}

\* C14: whatever the order in which the requests in flight are served (a
\* like and a dislike of one viewer on one post included), after every step
\* the like_count of each post is the number of its like edges and never
\* more than the number of viewers, and serving a like on an existing post
\* leaves the relation Liked and serving a dislike leaves it NotLiked, each
\* moving the counter by one exactly when the relation changes.
C14_NoCounterDrift ==
    /\ [][\A p \in DOMAIN posts' :
            /\ posts'[p].like_count =
                   Cardinality({e \in likes' : e[1] = p})
            /\ posts'[p].like_count <= Cardinality(FeedUsers)]_vars
    /\ [][\A request \in LikeRequests :
            (Serves(request) /\ request.post_id \in DOMAIN posts) =>
                LET edge == <<request.post_id, request.sub>>
                    Liked == edge \in likes
                    delta == posts'[request.post_id].like_count
                                 - posts[request.post_id].like_count
                IN /\ request.post_id \in DOMAIN posts'
                   /\ IF request.op = "like"
                      THEN /\ likes' = likes \cup {edge}
                           /\ delta = IF Liked THEN 0 ELSE 1
                      ELSE /\ likes' = likes \ {edge}
                           /\ delta = IF Liked THEN -1 ELSE 0]_vars

\* a like was served while a dislike of the same viewer on the same post was
\* in flight, and the dislike is still to be served: the relation is Liked
\* and the counter is one
C14_Witness ==
    /\ resp.op = "like"
    /\ resp.raced
    /\ resp.status = HTTP_201_CREATED
    /\ [op |-> "dislike", post_id |-> resp.post_id, sub |-> resp.sub]
           \in inflight
    /\ resp.post_id \in DOMAIN posts
    /\ <<resp.post_id, resp.sub>> \in likes
    /\ posts[resp.post_id].like_count = 1

\* both requests of the pair were served, the dislike last: the relation
\* ended NotLiked with the counter back at zero
C14_WitnessConverged ==
    /\ resp.op = "dislike"
    /\ resp.status = HTTP_204_NO_CONTENT
    /\ inflight = {}
    /\ resp.post_id \in DOMAIN posts
    /\ <<resp.post_id, resp.sub>> \notin likes
    /\ posts[resp.post_id].like_count = 0

----------------------------------------------------------------------------
(* Concurrent register requests (SpecRace).  register runs on a worker
   thread per request; between its statements other requests run.  Its
   statements: hash the password and build user_data (lines 27-34), insert
   through create_user and translate UniqueViolation (lines 35-39), mint
   the pair (line 40). *)

\* lines 27-34
register_user_data(dto, salt) == UserData(dto, hashpw(dto.password, salt))

\* an insert step that answers a duplicate with the row already stored
register_insert_ignores_violation(user_data) ==
    LET created == create_user(user_data)
    IN IF created.raised = "UniqueViolation"
       THEN [error |-> "", users |-> users, writes |-> 0,
             user |-> get_user_by_username(user_data.user_name)]
       ELSE [error |-> created.raised, users |-> created.users,
             writes |-> created.writes, user |-> created.user]

\* lines 35-39: the insert, with UniqueViolation turned into ValueError
register_insert(user_data) ==
    LET created == create_user(user_data)
    IN IF created.raised = "UniqueViolation"
       THEN [error |-> "User already exists", users |-> created.users,
             writes |-> created.writes, user |-> {}]
       ELSE [error |-> created.raised, users |-> created.users,
             writes |-> created.writes, user |-> created.user]

Clients == {1, 2}

\* the requests being served that ask for the same user name
Contenders(user_name) ==
    {r \in inflight : r.pc # "answered" /\ r.dto.user_name = user_name}

RaceArrive ==
    \E client \in Clients, dto \in Dtos :
        /\ \A r \in inflight : r.client # client
        /\ inflight' = inflight \cup
              {[client |-> client, dto |-> dto, pc |-> "hash",
                overlaps |-> Contenders(dto.user_name) # {},
                user_data |-> {}, user |-> {},
                error |-> "", tokens |-> {}]}
        /\ UNCHANGED <<env, users, storeWrites, now, held, registered, last>>

RaceHash ==
    \E r \in inflight, salt \in Salts :
        /\ r.pc = "hash"
        /\ inflight' = (inflight \ {r}) \cup
              {[r EXCEPT !.pc = "insert",
                         !.user_data = {register_user_data(r.dto, salt)}]}
        /\ UNCHANGED <<env, users, storeWrites, now, held, registered, last>>

RaceInsert ==
    \E r \in inflight :
        /\ r.pc = "insert"
        /\ LET inserted ==
                   register_insert(CHOOSE d \in r.user_data : TRUE)
               answered == [r EXCEPT !.pc = "answered",
                                     !.error = inserted.error]
           IN /\ users' = inserted.users
              /\ storeWrites' = storeWrites + inserted.writes
              /\ IF inserted.error # ""
                 THEN /\ inflight' = (inflight \ {r}) \cup {answered}
                      /\ last' = [op |-> "register", dto |-> r.dto,
                                  at |-> now, ok |-> FALSE,
                                  error |-> inserted.error, tokens |-> {}]
                 ELSE /\ inflight' = (inflight \ {r}) \cup
                            {[r EXCEPT !.pc = "tokens",
                                       !.user = inserted.user]}
                      /\ last' = last
        /\ UNCHANGED <<env, now, held, registered>>

RaceTokens ==
    \E r \in inflight :
        /\ r.pc = "tokens"
        /\ LET user == CHOOSE u \in r.user : TRUE
               pair == generate_token_pair(user.id)
           IN /\ inflight' = (inflight \ {r}) \cup
                     {[r EXCEPT !.pc = "answered", !.tokens = {pair}]}
              /\ last' = [op |-> "register", dto |-> r.dto, at |-> now,
                          ok |-> TRUE, error |-> "", tokens |-> {pair}]
        /\ UNCHANGED <<env, users, storeWrites, now, held, registered>>

NextRace ==
    \/ RaceArrive /\ UNCHANGED <<postVars, storeDown>>
    \/ RaceHash /\ UNCHANGED <<postVars, storeDown>>
    \/ RaceInsert /\ UNCHANGED <<postVars, storeDown>>
    \/ RaceTokens /\ UNCHANGED <<postVars, storeDown>>

SpecRace == AuthInit /\ [][NextRace]_vars

\* the requests for a user name that got past the insert
Winners(user_name) ==
    {r \in inflight : /\ r.dto.user_name = user_name
                      /\ r.pc \in {"tokens", "answered"}
                      /\ r.error = ""}

\* C15: in every interleaving of the statements of the register requests,
\* each user name has at most one row and at most one request that got past
\* the insert; every answer is either a token pair for the inserted row or
\* "User already exists"; and once two requests for one user name are both
\* answered, exactly one of them holds a pair and the other failed with
\* "User already exists".
C15_OneRegistrationWins ==
    /\ \A name \in Usernames :
          /\ Cardinality(get_user_by_username(name)) <= 1
          /\ Cardinality(Winners(name)) <= 1
          /\ Cardinality(Winners(name)) =
                 Cardinality(get_user_by_username(name))
    /\ \A r \in inflight :
          r.pc = "answered" =>
              \/ /\ r.error = ""
                 /\ r.tokens # {}
                 /\ r.user \subseteq users
                 /\ \A u \in r.user : u.user_name = r.dto.user_name
              \/ /\ r.error = "User already exists"
                 /\ r.tokens = {}
    /\ \A a, b \in inflight :
          (/\ a.client # b.client
           /\ a.dto.user_name = b.dto.user_name
           /\ a.pc = "answered"
           /\ b.pc = "answered") =>
              (a.error = "") # (b.error = "")

\* two requests for one user name ran together and both were answered: the
\* one that arrived second overtook the first, got the pair, and the first
\* failed with "User already exists"; one row is stored
C15_Witness ==
    \E a, b \in inflight :
        /\ a.client # b.client
        /\ a.dto.user_name = b.dto.user_name
        /\ a.pc = "answered"
        /\ b.pc = "answered"
        /\ a.overlaps
        /\ a.tokens # {}
        /\ b.error = "User already exists"
        /\ Cardinality(get_user_by_username(a.dto.user_name)) = 1

----------------------------------------------------------------------------
(* Whose identity the post endpoints act under (SpecScope): the six
   handlers, called by users whose request bodies and queries name other
   users *)

\* list queries with the defaults, filtered by any owner
ScopeQueries ==
    [limit : {DefaultLimit}, offset : {DefaultOffset}, reply_to_id : {None},
     owner_id : {None, 1, 2}, search : {NoSearch}]

\* request bodies of POST /posts naming any user as the author
ScopeDtos == [user_id : UserIds, text : {<<"a">>}, reply_to_id : {None}]

ScopeCreate ==
    /\ postSeq < MaxPosts
    /\ \E dto \in ScopeDtos, user \in FeedUsers :
        Answer("create", dto, user, create_post_handler(dto, user))

ScopeList ==
    \E query \in ScopeQueries, user \in FeedUsers :
        Answer("list", query, user, get_all_posts_handler(query, user))

ScopeDelete ==
    \E post_id \in PostIds, user \in FeedUsers :
        Answer("delete", post_id, user, delete_post_handler(post_id, user))

ScopeView ==
    \E post_id \in PostIds, user \in FeedUsers :
        Answer("view", post_id, user, view_post_handler(post_id, user))

ScopeLike ==
    \E post_id \in PostIds, user \in FeedUsers :
        Answer("like", post_id, user, like_post_handler(post_id, user))

ScopeDislike ==
    \E post_id \in PostIds, user \in FeedUsers :
        Answer("dislike", post_id, user,
               dislike_post_handler(post_id, user))

NextScope ==
    \/ ScopeCreate /\ UNCHANGED <<authVars, runVars>>
    \/ ScopeList /\ UNCHANGED <<authVars, runVars>>
    \/ ScopeDelete /\ UNCHANGED <<authVars, runVars>>
    \/ ScopeView /\ UNCHANGED <<authVars, runVars>>
    \/ ScopeLike /\ UNCHANGED <<authVars, runVars>>
    \/ ScopeDislike /\ UNCHANGED <<authVars, runVars>>

SpecScope == PostInit /\ [][NextScope]_vars

\* the step answers a request of this kind on an existing post
OnPost(op) == resp'.op = op /\ resp'.request \in DOMAIN posts

\* C16: every request is served under the subject of its token: a created
\* post is owned by the subject whatever user_id the body carried; a listing
\* marks as liked exactly the rows the subject liked, whatever owner the
\* query names; a delete succeeds exactly for the subject that owns the
\* post; and a view, like or dislike touches the subject's edge and no
\* other.
C16_SubjectScopes ==
    /\ [][resp'.op = "create" =>
            /\ resp'.status = HTTP_201_CREATED
            /\ DOMAIN posts' = DOMAIN posts \cup {postSeq'}
            /\ postSeq' \notin DOMAIN posts
            /\ posts'[postSeq'].owner_id = resp'.sub]_vars
    /\ [][resp'.op = "list" =>
            /\ resp'.status = HTTP_200_OK
            /\ \A i \in 1..Len(resp'.body) :
                  resp'.body[i].liked =
                      (<<resp'.body[i].id, resp'.sub>> \in likes)]_vars
    /\ [][OnPost("delete") =>
            IF posts[resp'.request].owner_id = resp'.sub
            THEN resp'.status = HTTP_204_NO_CONTENT
                    /\ resp'.request \notin DOMAIN posts'
            ELSE resp'.detail = "NotOwner" /\ StoreUnchanged]_vars
    /\ [][OnPost("view") =>
            /\ views' = views \cup {<<resp'.request, resp'.sub>>}
            /\ likes' = likes]_vars
    /\ [][OnPost("like") =>
            /\ likes' = likes \cup {<<resp'.request, resp'.sub>>}
            /\ views' = views]_vars
    /\ [][OnPost("dislike") =>
            /\ likes' = likes \ {<<resp'.request, resp'.sub>>}
            /\ views' = views]_vars

\* a post was created by a subject whose request body named another user:
\* the post belongs to the subject
C16_Witness ==
    /\ resp.op = "create"
    /\ resp.status = HTTP_201_CREATED
    /\ resp.request.user_id # resp.sub
    /\ postSeq \in DOMAIN posts
    /\ posts[postSeq].owner_id = resp.sub

\* a listing filtered by another user's posts marked a row as liked by the
\* subject, who does not own it
C16_WitnessListing ==
    /\ resp.op = "list"
    /\ resp.request.owner_id # None
    /\ resp.request.owner_id # resp.sub
    /\ Len(resp.body) = 1
    /\ resp.body[1].liked
    /\ <<resp.body[1].id, resp.request.owner_id>> \notin likes

----------------------------------------------------------------------------
(* Deleting a post that has edges and replies (SpecThread): a post and a
   reply to it, two users who view, like, dislike and delete *)

ThreadIds == {1, 2}

ThreadDtos == [user_id : UserIds, text : {"hello"},
               reply_to_id : {None} \cup ThreadIds]

ThreadCreate ==
    /\ postSeq + 1 \in ThreadIds
    /\ \E dto \in ThreadDtos, user \in FeedUsers :
        Record("create", postSeq + 1, user, create_post_handler(dto, user))

ThreadDelete ==
    \E post_id \in ThreadIds, user \in FeedUsers :
        Record("delete", post_id, user, delete_post_handler(post_id, user))

ThreadView ==
    \E post_id \in ThreadIds, user \in FeedUsers :
        Record("view", post_id, user, view_post_handler(post_id, user))

ThreadLike ==
    \E post_id \in ThreadIds, user \in FeedUsers :
        Record("like", post_id, user, like_post_handler(post_id, user))

ThreadDislike ==
    \E post_id \in ThreadIds, user \in FeedUsers :
        Record("dislike", post_id, user,
               dislike_post_handler(post_id, user))

NextThread ==
    \/ ThreadCreate /\ UNCHANGED <<authVars, runVars>>
    \/ ThreadDelete /\ UNCHANGED <<authVars, runVars>>
    \/ ThreadView /\ UNCHANGED <<authVars, runVars>>
    \/ ThreadLike /\ UNCHANGED <<authVars, runVars>>
    \/ ThreadDislike /\ UNCHANGED <<authVars, runVars>>

SpecThread == PostInit /\ [][NextThread]_vars

\* C17: after every step each view edge and like edge refers to an existing
\* post; a delete answered 204 removes the post and exactly its own edges
\* and leaves every other post, the replies to it included, as it was
\* (reply_to_id still naming the deleted post); and a view, like or dislike
\* of an id that has no post is answered 404 PostNotFound and changes
\* nothing.
C17_DeleteCascades ==
    /\ [][\A edge \in views' \cup likes' : edge[1] \in DOMAIN posts']_vars
    /\ [][(resp'.op = "delete" /\ resp'.status = HTTP_204_NO_CONTENT) =>
            /\ resp'.post_id \in DOMAIN posts
            /\ DOMAIN posts' = DOMAIN posts \ {resp'.post_id}
            /\ views' = {edge \in views : edge[1] # resp'.post_id}
            /\ likes' = {edge \in likes : edge[1] # resp'.post_id}
            /\ \A reply \in DOMAIN posts' : posts'[reply] = posts[reply]]_vars
    /\ [][(/\ resp'.op \in {"view", "like", "dislike"}
           /\ resp'.post_id \notin DOMAIN posts) =>
            /\ resp'.status = HTTP_404_NOT_FOUND
            /\ resp'.detail = "PostNotFound"
            /\ StoreUnchanged]_vars

\* post 1 was deleted by its owner, who had viewed and liked it: no edge of
\* it is left and its reply, post 2, is still there and still names it
C17_Witness ==
    /\ resp.op = "delete"
    /\ resp.status = HTTP_204_NO_CONTENT
    /\ resp.post_id = 1
    /\ resp.before.viewed
    /\ resp.before.liked
    /\ DOMAIN posts = {2}
    /\ posts[2].reply_to_id = 1
    /\ \A edge \in views \cup likes : edge[1] = 2

\* a like of a deleted post was refused
C17_WitnessAfter ==
    /\ resp.op = "like"
    /\ resp.post_id <= postSeq
    /\ resp.post_id \notin DOMAIN posts
    /\ resp.status = HTTP_404_NOT_FOUND
    /\ resp.detail = "PostNotFound"

----------------------------------------------------------------------------
(* Failures (SpecFault): register and the six post endpoints over a store
   that can refuse every statement for a while *)

FaultIds == {1}

\* register requests: one user name, so that a second request is a duplicate
FaultRegistrations ==
    [user_name : {"alice"}, password : Passwords,
     first_name : {"First"}, last_name : {"Last"}]

\* request bodies of POST /posts: a root post or a reply to post 1
FaultDtos == [user_id : {1}, text : {<<"a">>},
              reply_to_id : {None} \cup FaultIds]

FaultQueries ==
    [limit : {DefaultLimit}, offset : {DefaultOffset}, reply_to_id : {None},
     owner_id : {None}, search : {NoSearch}]

\* the database stops accepting statements
Outage ==
    /\ ~storeDown
    /\ storeDown' = TRUE
    /\ UNCHANGED <<authVars, postVars, inflight>>

Recover ==
    /\ storeDown
    /\ storeDown' = FALSE
    /\ UNCHANGED <<authVars, postVars, inflight>>

\* register as the caller sees it: it returns, or it raises with a message
FaultRegister ==
    \E dto \in FaultRegistrations, salt \in Salts :
        LET result == register(dto, salt)
        IN /\ users' = result.users
           /\ storeWrites' = storeWrites + result.writes
           /\ resp' = [op |-> "register", request |-> dto, sub |-> None,
                       status |-> None, detail |-> result.error,
                       body |-> <<>>]
           /\ UNCHANGED <<env, now, held, registered, last, posts, postSeq,
                          views, likes, runVars>>

FaultList ==
    \E query \in FaultQueries, user \in FeedUsers :
        Answer("list", query, user, get_all_posts_handler(query, user))

FaultCreate ==
    /\ postSeq + 1 \in FaultIds
    /\ \E dto \in FaultDtos, user \in FeedUsers :
        Answer("create", dto, user, create_post_handler(dto, user))

FaultDelete ==
    \E post_id \in FaultIds, user \in FeedUsers :
        Answer("delete", post_id, user, delete_post_handler(post_id, user))

FaultView ==
    \E post_id \in FaultIds, user \in FeedUsers :
        Answer("view", post_id, user, view_post_handler(post_id, user))

FaultLike ==
    \E post_id \in FaultIds, user \in FeedUsers :
        Answer("like", post_id, user, like_post_handler(post_id, user))

FaultDislike ==
    \E post_id \in FaultIds, user \in FeedUsers :
        Answer("dislike", post_id, user,
               dislike_post_handler(post_id, user))

NextFault ==
    \/ Outage
    \/ Recover
    \/ FaultRegister
    \/ FaultList /\ UNCHANGED <<authVars, runVars>>
    \/ FaultCreate /\ UNCHANGED <<authVars, runVars>>
    \/ FaultDelete /\ UNCHANGED <<authVars, runVars>>
    \/ FaultView /\ UNCHANGED <<authVars, runVars>>
    \/ FaultLike /\ UNCHANGED <<authVars, runVars>>
    \/ FaultDislike /\ UNCHANGED <<authVars, runVars>>

SpecFault == AuthInit /\ [][NextFault]_vars

\* the step answers a call of one of these operations
Answered(ops) ==
    /\ resp'.op \in ops
    /\ UNCHANGED storeDown

\* the call the step answers failed: it raised, with a message
Failed == resp'.detail # ""

\* C18: when a call of register, create, delete, view, like or dislike
\* fails, with a domain error or because the store refused the write, the
\* users, the posts, the edges and the counters are what they were before
\* the call.
C18_FailuresChangeNothing ==
    [][(/\ Answered({"register", "create", "delete", "view", "like",
                     "dislike"})
        /\ Failed) =>
           UNCHANGED <<users, storeWrites, posts, postSeq, views, likes>>]_vars

\* a register request for a name already taken failed and the stored row is
\* still the one of the first registration, with another password's hash
C18_Witness ==
    /\ resp.op = "register"
    /\ resp.detail = "User already exists"
    /\ Cardinality(users) = 1
    /\ storeWrites = 1
    /\ \A u \in users : ~checkpw(resp.request.password, u.password_hash)

\* a like failed because the store refused the write: the post is not liked
C18_WitnessStoreWrite ==
    /\ resp.op = "like"
    /\ resp.detail = "StoreUnavailable"
    /\ resp.request \in DOMAIN posts
    /\ posts[resp.request].like_count = 0
    /\ likes = {}

\* the status the endpoint answers a failure with
FailureStatus(op) ==
    IF op \in {"list", "create"} THEN HTTP_400_BAD_REQUEST
    ELSE HTTP_404_NOT_FOUND

\* the status the endpoint answers a success with
SuccessStatus(op) ==
    IF op = "list" THEN HTTP_200_OK
    ELSE IF op \in {"delete", "dislike"} THEN HTTP_204_NO_CONTENT
    ELSE HTTP_201_CREATED

\* the exception the service raises for the request, "" if it raises none
Raised(op, request, sub) ==
    IF storeDown THEN "StoreUnavailable"
    ELSE IF op = "list" THEN ""
    ELSE IF op = "create"
    THEN IF request.reply_to_id # None /\ request.reply_to_id \notin DOMAIN posts
         THEN "ParentNotFound" ELSE ""
    ELSE IF request \notin DOMAIN posts THEN "PostNotFound"
    ELSE IF op = "delete" /\ posts[request].owner_id # sub THEN "NotOwner"
    ELSE ""

PostOps == {"list", "create", "delete", "view", "like", "dislike"}

\* C19: every post endpoint answers in the same step as the call, with the
\* exception's message as detail and a status fixed per endpoint: 404 for
\* every exception of delete, view, like and dislike, 400 for every
\* exception of list and create, and the success status otherwise; so a
\* delete by a requester who is not the owner and a delete of a missing post
\* are both answered 404 and differ in the detail only.
C19_StatusPerEndpoint ==
    [][Answered(PostOps) =>
          LET raised == Raised(resp'.op, resp'.request, resp'.sub)
          IN /\ resp'.detail = raised
             /\ resp'.status = IF raised = "" THEN SuccessStatus(resp'.op)
                               ELSE FailureStatus(resp'.op)
             /\ (resp'.op = "delete" /\ raised \in {"NotOwner", "PostNotFound"})
                    => resp'.status = HTTP_404_NOT_FOUND]_vars

\* a delete by a user who does not own the post was answered 404 NotOwner
\* and the post is still there
C19_Witness ==
    /\ resp.op = "delete"
    /\ resp.status = HTTP_404_NOT_FOUND
    /\ resp.detail = "NotOwner"
    /\ resp.request \in DOMAIN posts
    /\ posts[resp.request].owner_id # resp.sub

\* a delete of a missing post was answered 404 PostNotFound
C19_WitnessNotFound ==
    /\ resp.op = "delete"
    /\ resp.status = HTTP_404_NOT_FOUND
    /\ resp.detail = "PostNotFound"
    /\ ~storeDown

\* a listing failed and was answered 400
C19_WitnessList ==
    /\ resp.op = "list"
    /\ resp.status = HTTP_400_BAD_REQUEST
    /\ resp.detail = "StoreUnavailable"

\* a reply to a missing post was answered 400
C19_WitnessCreate ==
    /\ resp.op = "create"
    /\ resp.status = HTTP_400_BAD_REQUEST
    /\ resp.detail = "ParentNotFound"
    /\ ~storeDown
    /\ resp.request.reply_to_id \notin DOMAIN posts

====
